---- MODULE Spec2Model ----
(***************************************************************************)
(* photon-imsg-mcp: the tool dispatcher (server.ts), the four tool         *)
(* handlers (tools/imessage.ts) and the PhotonClient gateway (client.ts).  *)
(* One tool invocation is followed from the CallTool request through the   *)
(* handler's await of the messaging SDK to the result handed back to the   *)
(* transport.  The SDK is the environment: it answers each call with any   *)
(* return value or any thrown value.                                       *)
(*                                                                         *)
(* Texts are sequences of string fragments; the empty text is << >>.       *)
(***************************************************************************)
EXTENDS Integers, Sequences, FiniteSets, TLC

VARIABLES
    pc,         \* "idle" | "awaitSend" | "awaitGetMessages" | "done"
    request,    \* the CallTool request being served: [name, args]
    sdkCalls,   \* the SDK primitives invoked for this request, in order
    sdkReply,   \* what the SDK answered to the awaited call
    response,   \* what the transport gets back: a result envelope or a fault
    locals,     \* the aggregation locals of the handler that just ran
    console,    \* the functions bound to the global console.log and console.info
    client,     \* the PhotonClient: its SDK handle and what its constructor saved
    cleanups,   \* the invocations of the shutdown `cleanup` closure, in order
    events,     \* what the process did on its way down, in order
    frames      \* the CallTool invocations in flight at once, one per slot

toolVars == <<pc, request, sdkCalls, sdkReply, response, locals>>

processVars == <<console, client, cleanups, events>>

vars == <<pc, request, sdkCalls, sdkReply, response, locals,
          console, client, cleanups, events, frames>>

(***************************************************************************)
(* Bounds of the model.                                                    *)
(***************************************************************************)
\* the shutdown signals delivered to one process
MaxSignals == 3

\* the tool invocations one server has in flight at once
NumSlots == 2

MaxMsgs == 3    \* longest snapshot the SDK returns

(***************************************************************************)
(* JavaScript values, as far as the handlers look at them.                 *)
(***************************************************************************)
Undefined == [t |-> "undefined", s |-> "", n |-> 0, b |-> FALSE]
Null      == [t |-> "null",      s |-> "", n |-> 0, b |-> FALSE]
Absent    == [t |-> "absent",    s |-> "", n |-> 0, b |-> FALSE]  \* key not in the object
Str(x)    == [t |-> "string",    s |-> x,  n |-> 0, b |-> FALSE]
Num(x)    == [t |-> "number",    s |-> "", n |-> x, b |-> FALSE]
Bool(x)   == [t |-> "boolean",   s |-> "", n |-> 0, b |-> x]

\* typeof v
TypeOf(v) ==
    CASE v.t = "string"  -> "string"
      [] v.t = "number"  -> "number"
      [] v.t = "boolean" -> "boolean"
      [] v.t = "null"    -> "object"
      [] OTHER           -> "undefined"

\* ToBoolean(v): what `!v` and `if (v)` look at
Truthy(v) ==
    CASE v.t = "string"  -> v.s # ""
      [] v.t = "number"  -> v.n # 0
      [] v.t = "boolean" -> v.b
      [] OTHER           -> FALSE

\* String(v), as a template literal `${v}` renders it
JSString(v) ==
    CASE v.t = "string"  -> v.s
      [] v.t = "number"  -> ToString(v.n)
      [] v.t = "boolean" -> IF v.b THEN "true" ELSE "false"
      [] v.t = "null"    -> "null"
      [] OTHER           -> "undefined"

\* a text fragment; the empty string contributes nothing to a text
Frag(s) == IF s = "" THEN << >> ELSE <<s>>

(***************************************************************************)
(* The `arguments` value of a CallTool request: undefined (absent), null,  *)
(* a primitive, or an object with some of the keys the tools read.         *)
(***************************************************************************)
ArgsPrim(v) ==
    [kind |-> v.t, prim |-> v,
     recipient |-> Absent, text |-> Absent, chatId |-> Absent,
     limit |-> Absent, unreadOnly |-> Absent]

ArgsObject(r, x, c, l, u) ==
    [kind |-> "object", prim |-> Absent,
     recipient |-> r, text |-> x, chatId |-> c, limit |-> l, unreadOnly |-> u]

NoArgs == ArgsPrim(Undefined)

\* !args
ArgsFalsy(args) == args.kind # "object" /\ ~Truthy(args.prim)

\* typeof args === "object" && args !== null
ArgsIsObject(args) == args.kind = "object"

\* "key" in args
HasKey(args, key) == args.kind = "object" /\ args[key].t # "absent"

\* args.key (undefined when the key is missing)
Prop(args, key) == IF HasKey(args, key) THEN args[key] ELSE Undefined

(***************************************************************************)
(* The messaging SDK (@photon-ai/imessage-kit), the environment.           *)
(***************************************************************************)
\* asRecipient: the recipient formats the SDK's parser accepts, with the
\* normal form it returns for each
RecipientForms == {"+15551234567", "(555) 123-4567", "User@Example.com"}

asRecipientAccepts(v) == v.t = "string" /\ v.s \in RecipientForms

asRecipient(v) ==
    CASE v.s = "+15551234567"     -> "+15551234567"
      [] v.s = "(555) 123-4567"   -> "+15551234567"
      [] v.s = "User@Example.com" -> "user@example.com"

\* the filter object handed to sdk.getMessages
NoFilter == [sender |-> Absent, unreadOnly |-> Absent, limit |-> Absent,
             excludeOwnMessages |-> Absent]

Filter(sender, unreadOnly, limit) ==
    [sender |-> sender, unreadOnly |-> unreadOnly, limit |-> limit,
     excludeOwnMessages |-> Bool(FALSE)]

\* an invocation of an SDK primitive
NoCall == [op |-> "none", to |-> "", text |-> "", filter |-> NoFilter]
SendCall(to, text) == [op |-> "send", to |-> to, text |-> text, filter |-> NoFilter]
GetMessagesCall(filter) == [op |-> "getMessages", to |-> "", text |-> "", filter |-> filter]

\* a value some code throws: an Error with a message, or any other value
NoThrown == [instanceofError |-> FALSE, message |-> << >>, value |-> Absent]
ErrorObject(msg) == [instanceofError |-> TRUE, message |-> msg, value |-> Absent]
ThrownValue(v) == [instanceofError |-> FALSE, message |-> << >>, value |-> v]

\* error instanceof Error ? error.message : String(error)
ErrorMessage(error) ==
    IF error.instanceofError THEN error.message ELSE Frag(JSString(error.value))

\* what the SDK throws
SdkThrown == {ErrorObject(<<"AppleScript execution failed">>),
              ErrorObject(<<"Database is locked">>),
              ThrownValue(Str("timeout"))}

\* what the SDK answers to a call
NoReply == [shape |-> "none", messages |-> << >>, err |-> NoThrown]
Returned(shape, messages) == [shape |-> shape, messages |-> messages, err |-> NoThrown]
Threw(error) == [shape |-> "throw", messages |-> << >>, err |-> error]

(***************************************************************************)
(* A step of an async function: it throws, it returns a text, or it        *)
(* suspends awaiting an SDK call.                                          *)
(***************************************************************************)
Throw(msg)   == [k |-> "throw",  text |-> msg,   call |-> NoCall]
Return(text) == [k |-> "return", text |-> text,  call |-> NoCall]
Await(call)  == [k |-> "await",  text |-> << >>, call |-> call]

\* catch (error) { throw new Error(`<prefix>${message of error}`) }
Rethrow(prefix, step) ==
    IF step.k = "throw" THEN Throw(<<prefix>> \o step.text) ELSE step

(***************************************************************************)
(* What the transport gets back.                                           *)
(***************************************************************************)
MethodNotFound == -32601

NoResponse == [kind |-> "none", isError |-> FALSE, text |-> << >>, code |-> 0]

\* { content: [{ type: "text", text }], isError }
CallToolResult(text, isError) ==
    [kind |-> "envelope", isError |-> isError, text |-> text, code |-> 0]

\* throw new McpError(code, message)
McpError(code, message) ==
    [kind |-> "fault", isError |-> FALSE, text |-> message, code |-> code]

\* the catch block without its error flag
ErrorEnvelopeUnflagged(message) == CallToolResult(<<"Error: ">> \o message, FALSE)

\* the catch block of every handler
ErrorEnvelope(message) == CallToolResult(<<"Error: ">> \o message, TRUE)

\* a handler's step as the state it leaves: a result, or a pending SDK call
Settle(step) ==
    CASE step.k = "throw"  -> [done |-> TRUE,  result |-> ErrorEnvelope(step.text), call |-> NoCall]
      [] step.k = "return" -> [done |-> TRUE,  result |-> CallToolResult(step.text, FALSE), call |-> NoCall]
      [] OTHER             -> [done |-> FALSE, result |-> NoResponse, call |-> step.call]

(***************************************************************************)
(* tools/imessage.ts: the type guards.                                     *)
(***************************************************************************)
\* the guard forgetting `text`
isSendMessageArgsRecipientOnly(args) ==
    /\ ArgsIsObject(args)
    /\ HasKey(args, "recipient")
    /\ TypeOf(Prop(args, "recipient")) = "string"

isSendMessageArgs(args) ==
    /\ ArgsIsObject(args)
    /\ HasKey(args, "recipient")
    /\ HasKey(args, "text")
    /\ TypeOf(Prop(args, "recipient")) = "string"
    /\ TypeOf(Prop(args, "text")) = "string"

isReadMessagesArgs(args) == ArgsIsObject(args)

isGetConversationsArgs(args) == ArgsIsObject(args)

(***************************************************************************)
(* client.ts: PhotonClient.sendMessage, up to its await and after it.      *)
(***************************************************************************)
\* sendMessage sending to the raw recipient when the parser rejects it
sendMessageCallUnparsed(args) ==
    LET recipient == Prop(args, "recipient")
        text      == Prop(args, "text")
    IN  Rethrow("Failed to send message: ",
            IF ~Truthy(recipient) \/ ~Truthy(text)
            THEN Throw(<<"Recipient and text are required">>)
            ELSE Await(SendCall(IF asRecipientAccepts(recipient)
                                THEN asRecipient(recipient) ELSE JSString(recipient),
                                JSString(text))))

sendMessageCall(args) ==
    LET recipient == Prop(args, "recipient")
        text      == Prop(args, "text")
    IN  Rethrow("Failed to send message: ",
            IF ~Truthy(recipient) \/ ~Truthy(text)
            THEN Throw(<<"Recipient and text are required">>)
            ELSE IF ~asRecipientAccepts(recipient)
            THEN Throw(<<"Invalid recipient format: ">> \o Frag(JSString(recipient))
                       \o <<". Expected phone number (e.g., +1234567890) or email address.">>)
            ELSE Await(SendCall(asRecipient(recipient), JSString(text))))

\* sendMessage confirming the parsed recipient instead of the supplied one
sendMessageResumeParsed(args, reply) ==
    LET recipient == Prop(args, "recipient")
    IN  Rethrow("Failed to send message: ",
            IF reply.shape = "throw"
            THEN Throw(ErrorMessage(reply.err))
            ELSE Return(<<"Message sent successfully to ", asRecipient(recipient)>>))

sendMessageResume(args, reply) ==
    LET recipient == Prop(args, "recipient")
    IN  Rethrow("Failed to send message: ",
            IF reply.shape = "throw"
            THEN Throw(ErrorMessage(reply.err))
            ELSE Return(<<"Message sent successfully to ">> \o Frag(JSString(recipient))))

(***************************************************************************)
(* tools/imessage.ts: handleSendMessageTool.                               *)
(***************************************************************************)
handleSendMessageToolCall(args) ==
    IF ArgsFalsy(args)
    THEN Throw(<<"No arguments provided">>)
    ELSE IF ~isSendMessageArgs(args)
    THEN Throw(<<"Invalid arguments for photon_send_message. ", "Required: recipient, text">>)
    ELSE sendMessageCall(args)

handleSendMessageToolResume(args, reply) == sendMessageResume(args, reply)

(***************************************************************************)
(* Message records of the SDK and the snapshots it returns.                *)
(***************************************************************************)
Msg(chatId, text, date, isFromMe, isRead, sender, isGroupChat, service) ==
    [chatId |-> chatId, text |-> text, date |-> date, isFromMe |-> isFromMe,
     isRead |-> isRead, sender |-> sender, isGroupChat |-> isGroupChat,
     service |-> service]

MessagePool ==
    { Msg("c1", "a", 2, FALSE, FALSE, "alice", FALSE, "iMessage"),
      Msg("c1", "b", 2, TRUE,  FALSE, "me",    FALSE, "SMS"),
      Msg("c1", "",  3, FALSE, TRUE,  "bob",   TRUE,  ""),
      Msg("c2", "d", 1, FALSE, FALSE, "alice", FALSE, "iMessage"),
      Msg("c2", "f", 3, FALSE, FALSE, "",      FALSE, "iMessage"),
      Msg("c2", "g", 2, FALSE, TRUE,  "bob",   TRUE,  "SMS"),
      Msg("c3", "e", 2, TRUE,  TRUE,  "me",    FALSE, "iMessage") }

Snapshots == UNION { [1..n -> MessagePool] : n \in 0..MaxMsgs }

\* what sdk.getMessages answers: a bare list, a wrapper with a `messages`
\* field, a wrapper without one or with a null one, null, or a throw
GetMessagesReplies ==
    { Returned("array", m) : m \in Snapshots }
    \cup { Returned("wrapper", m) : m \in Snapshots }
    \cup { Returned("wrapperNoMessages", << >>), Returned("wrapperNullMessages", << >>),
           Returned("null", << >>) }
    \cup { Threw(e) : e \in SdkThrown }

\* what sdk.send answers
SendReplies == { Returned("void", << >>) } \cup { Threw(e) : e \in SdkThrown }

\* Array.isArray(result) ? result : (result as any).messages || []
\* (reading .messages of null is a TypeError)
\* the normalisation without its `|| []`: .length of undefined or null throws
messagesThrowsNoFallback(reply) ==
    reply.shape \in {"null", "wrapperNoMessages", "wrapperNullMessages"}

messagesThrows(reply) == reply.shape = "null"

messagesOf(reply) ==
    CASE reply.shape = "array"   -> reply.messages
      [] reply.shape = "wrapper" -> reply.messages
      [] OTHER                   -> << >>

TypeErrorMessage == <<"Cannot read properties of null (reading 'messages')">>

(***************************************************************************)
(* Array helpers.                                                          *)
(***************************************************************************)
\* texts.join(sep)
RECURSIVE Join(_, _)
Join(texts, sep) ==
    IF Len(texts) = 0 THEN << >>
    ELSE IF Len(texts) = 1 THEN texts[1]
    ELSE texts[1] \o <<sep>> \o Join(Tail(texts), sep)

\* array.slice(0, end)
Slice(array, end) ==
    LET final == IF end < 0
                 THEN (IF Len(array) + end < 0 THEN 0 ELSE Len(array) + end)
                 ELSE (IF end > Len(array) THEN Len(array) ELSE end)
    IN  SubSeq(array, 1, final)

\* a filter whose predicate holds of every message
filterKeepingAll(messages, chatId) == messages

\* array.filter(pred) for pred = (msg.chatId === chatId)
RECURSIVE filterByChatId(_, _)
filterByChatId(messages, chatId) ==
    IF Len(messages) = 0 THEN << >>
    ELSE (IF messages[1].chatId = chatId THEN <<messages[1]>> ELSE << >>)
         \o filterByChatId(Tail(messages), chatId)

\* set.add(x), the set kept in insertion order
SetAdd(set, x) ==
    IF \E i \in 1..Len(set) : set[i] = x THEN set ELSE Append(set, x)

\* msg.text || '(no text)'
textOrPlaceholder(text) == IF text = "" THEN "(no text)" ELSE text

\* new Date(d).toLocaleString()
toLocaleString(date) == "date#" \o ToString(date)

\* Array.from(participants).join(', ') || 'Unknown'
participantsText(participants) ==
    LET joined == Join([i \in 1..Len(participants) |-> Frag(participants[i])], ", ")
    IN  IF joined = << >> THEN <<"Unknown">> ELSE joined

(***************************************************************************)
(* client.ts: PhotonClient.readMessages.                                   *)
(***************************************************************************)
DefaultLimit == 50

\* the destructuring without its default
limitNoDefault(args) == Prop(args, "limit")

\* const { limit = 50 } = args: the default applies to undefined only
limitOrDefault(args) ==
    IF Prop(args, "limit").t = "undefined" THEN Num(DefaultLimit) ELSE Prop(args, "limit")

\* the filter readMessages builds once the recipient passed the parser
readFilter(args) ==
    LET recipient  == Prop(args, "recipient")
        limit      == limitOrDefault(args)
        unreadOnly == Prop(args, "unreadOnly")
    IN  Filter(IF Truthy(recipient) THEN Str(asRecipient(recipient)) ELSE Absent,
               IF Truthy(unreadOnly) THEN Bool(TRUE) ELSE Absent,
               IF Truthy(limit) THEN limit ELSE Absent)

readMessagesCall(args) ==
    LET recipient == Prop(args, "recipient")
    IN  Rethrow("Failed to read messages: ",
            IF Truthy(recipient) /\ ~asRecipientAccepts(recipient)
            THEN Throw(<<"Invalid recipient format: ">> \o Frag(JSString(recipient))
                       \o <<". Expected phone number (e.g., +1234567890) or email address.">>)
            ELSE Await(GetMessagesCall(readFilter(args))))

\* `[${date}] ${sender} (${service}): ${text}`
formatMessage(msg) ==
    LET sender  == IF msg.isFromMe THEN "You"
                   ELSE IF msg.sender = "" THEN "Unknown" ELSE msg.sender
        service == IF msg.service = "" THEN "iMessage" ELSE msg.service
    IN  <<"[", toLocaleString(msg.date), "] ", sender, " (", service, "): ",
          textOrPlaceholder(msg.text)>>

readMessagesResume(args, reply) ==
    Rethrow("Failed to read messages: ",
        IF reply.shape = "throw" THEN Throw(ErrorMessage(reply.err))
        ELSE IF messagesThrows(reply) THEN Throw(TypeErrorMessage)
        ELSE LET messages == messagesOf(reply)
             IN  IF Len(messages) = 0
                 THEN Return(<<"No messages found">>)
                 ELSE Return(Join([i \in 1..Len(messages) |-> formatMessage(messages[i])],
                                  "\n\n")))

(***************************************************************************)
(* client.ts: PhotonClient.getConversations.                               *)
(***************************************************************************)
MessagesPerConversation == 10

getConversationsCall(args) ==
    LET limit == limitOrDefault(args)
    IN  Rethrow("Failed to get conversations: ",
            Await(GetMessagesCall(
                Filter(Absent, Absent, Num(limit.n * MessagesPerConversation)))))

\* the grouping loop never finding the chat id in the Map
conversationMapSetAlways(map, msg) ==
    Append(map, [chatId |-> msg.chatId,
                 lastMessage |-> textOrPlaceholder(msg.text),
                 lastDate |-> msg.date,
                 participants |-> IF msg.isFromMe THEN << >> ELSE <<msg.sender>>,
                 unreadCount |-> IF ~msg.isFromMe /\ ~msg.isRead THEN 1 ELSE 0])

\* the grouping loop body updating the last message on a tie as well
conversationMapSetLastWins(map, msg) ==
    LET seen  == \E i \in 1..Len(map) : map[i].chatId = msg.chatId
        map1  == IF seen THEN map
                 ELSE Append(map, [chatId |-> msg.chatId,
                                   lastMessage |-> textOrPlaceholder(msg.text),
                                   lastDate |-> msg.date,
                                   participants |-> << >>,
                                   unreadCount |-> 0])
        at    == CHOOSE i \in 1..Len(map1) : map1[i].chatId = msg.chatId
        conv  == map1[at]
        conv1 == IF msg.date >= conv.lastDate
                 THEN [conv EXCEPT !.lastMessage = textOrPlaceholder(msg.text),
                                   !.lastDate = msg.date]
                 ELSE conv
        conv2 == IF ~msg.isFromMe
                 THEN [conv1 EXCEPT !.participants = SetAdd(@, msg.sender),
                                    !.unreadCount = IF ~msg.isRead THEN @ + 1 ELSE @]
                 ELSE conv1
    IN  [map1 EXCEPT ![at] = conv2]

\* the body of the grouping loop, for one message; the Map is the sequence
\* of its values in insertion order
conversationMapSet(map, msg) ==
    LET seen  == \E i \in 1..Len(map) : map[i].chatId = msg.chatId
        map1  == IF seen THEN map
                 ELSE Append(map, [chatId |-> msg.chatId,
                                   lastMessage |-> textOrPlaceholder(msg.text),
                                   lastDate |-> msg.date,
                                   participants |-> << >>,
                                   unreadCount |-> 0])
        at    == CHOOSE i \in 1..Len(map1) : map1[i].chatId = msg.chatId
        conv  == map1[at]
        conv1 == IF msg.date > conv.lastDate
                 THEN [conv EXCEPT !.lastMessage = textOrPlaceholder(msg.text),
                                   !.lastDate = msg.date]
                 ELSE conv
        conv2 == IF ~msg.isFromMe
                 THEN [conv1 EXCEPT !.participants = SetAdd(@, msg.sender),
                                    !.unreadCount = IF ~msg.isRead THEN @ + 1 ELSE @]
                 ELSE conv1
    IN  [map1 EXCEPT ![at] = conv2]

\* for (const msg of messages) { ... }
RECURSIVE conversationMapFrom(_, _)
conversationMapFrom(map, messages) ==
    IF Len(messages) = 0 THEN map
    ELSE conversationMapFrom(conversationMapSet(map, messages[1]), Tail(messages))

conversationMap(messages) == conversationMapFrom(<< >>, messages)

\* .sort((a, b) => b.lastDate.getTime() - a.lastDate.getTime()), a stable sort
sortInsert(sorted, conv) ==
    LET keep == { i \in 0..Len(sorted) :
                    \A j \in 1..i : sorted[j].lastDate >= conv.lastDate }
        at   == CHOOSE i \in keep : \A k \in keep : k <= i
    IN  SubSeq(sorted, 1, at) \o <<conv>> \o SubSeq(sorted, at + 1, Len(sorted))

RECURSIVE sortByLastDateFrom(_, _)
sortByLastDateFrom(sorted, rest) ==
    IF Len(rest) = 0 THEN sorted
    ELSE sortByLastDateFrom(sortInsert(sorted, rest[1]), Tail(rest))

sortByLastDate(convs) == sortByLastDateFrom(<< >>, convs)

\* Array.from(conversationMap.values()).sort(...).slice(0, limit)
\* the first `limit` groups in insertion order, sorted afterwards
conversationsSliceFirst(messages, limit) ==
    sortByLastDate(Slice(conversationMap(messages), limit))

conversations(messages, limit) == Slice(sortByLastDate(conversationMap(messages)), limit)

\* `Chat ID: ${conv.chatId}\nParticipants: ${participants}\nLast Message: ...`
formatConversation(conv) ==
    <<"Chat ID: ", conv.chatId, "\nParticipants: ">>
    \o participantsText(conv.participants)
    \o <<"\nLast Message: ", conv.lastMessage>>
    \o (IF conv.unreadCount > 0
        THEN <<" (", ToString(conv.unreadCount), " unread)">> ELSE << >>)

\* let lastDate: Date | null = null; every Date of a message is later
NullDate == 0

\* the locals getConversations holds when it returns
NoLocals == [conversationMap |-> << >>, conversations |-> << >>,
             chatMessages |-> << >>,
             details |-> [participants |-> << >>, lastMessage |-> "",
                          lastDate |-> NullDate, unreadCount |-> 0,
                          isGroupChat |-> FALSE]]

getConversationsLocals(args, reply) ==
    LET messages == messagesOf(reply)
    IN  IF reply.shape = "throw" \/ messagesThrows(reply) \/ Len(messages) = 0
        THEN NoLocals
        ELSE [NoLocals EXCEPT
                !.conversationMap = conversationMap(messages),
                !.conversations = conversations(messages, limitOrDefault(args).n)]

getConversationsResume(args, reply) ==
    LET limit == limitOrDefault(args)
    IN  Rethrow("Failed to get conversations: ",
            IF reply.shape = "throw" THEN Throw(ErrorMessage(reply.err))
            ELSE IF messagesThrows(reply) THEN Throw(TypeErrorMessage)
            ELSE LET messages == messagesOf(reply)
                     convs    == conversations(messages, limit.n)
                 IN  IF Len(messages) = 0
                     THEN Return(<<"No conversations found">>)
                     ELSE Return(Join([i \in 1..Len(convs) |-> formatConversation(convs[i])],
                                      "\n\n---\n\n")))

(***************************************************************************)
(* client.ts: PhotonClient.getConversationDetails.                         *)
(***************************************************************************)
DetailsLimit == 100

getConversationDetailsCall(chatId) ==
    Rethrow("Failed to get conversation details: ",
        IF ~Truthy(chatId)
        THEN Throw(<<"Chat ID is required">>)
        ELSE Await(GetMessagesCall(Filter(Absent, Absent, Num(DetailsLimit)))))

\* the accumulation counting the local user's own unread records too
detailsSetCountingOwn(acc, msg) ==
    LET acc1 == [acc EXCEPT !.participants = IF ~msg.isFromMe
                                             THEN SetAdd(@, msg.sender) ELSE @,
                            !.unreadCount = IF ~msg.isRead THEN @ + 1 ELSE @]
        acc2 == IF acc1.lastDate = NullDate \/ msg.date > acc1.lastDate
                THEN [acc1 EXCEPT !.lastMessage = textOrPlaceholder(msg.text),
                                  !.lastDate = msg.date]
                ELSE acc1
    IN  IF msg.isGroupChat THEN [acc2 EXCEPT !.isGroupChat = TRUE] ELSE acc2

\* the body of the accumulation loop, for one message
detailsSet(acc, msg) ==
    LET acc1 == IF ~msg.isFromMe
                THEN [acc EXCEPT !.participants = SetAdd(@, msg.sender),
                                 !.unreadCount = IF ~msg.isRead THEN @ + 1 ELSE @]
                ELSE acc
        acc2 == IF acc1.lastDate = NullDate \/ msg.date > acc1.lastDate
                THEN [acc1 EXCEPT !.lastMessage = textOrPlaceholder(msg.text),
                                  !.lastDate = msg.date]
                ELSE acc1
    IN  IF msg.isGroupChat THEN [acc2 EXCEPT !.isGroupChat = TRUE] ELSE acc2

RECURSIVE detailsFrom(_, _)
detailsFrom(acc, chatMessages) ==
    IF Len(chatMessages) = 0 THEN acc
    ELSE detailsFrom(detailsSet(acc, chatMessages[1]), Tail(chatMessages))

details(chatMessages) ==
    detailsFrom([participants |-> << >>, lastMessage |-> "No messages",
                 lastDate |-> NullDate, unreadCount |-> 0, isGroupChat |-> FALSE],
                chatMessages)

formatDetails(chatId, d, total) ==
    <<"Chat ID: ", chatId, "\n",
      "Type: ", IF d.isGroupChat THEN "Group Chat" ELSE "1-on-1", "\n",
      "Participants: ">> \o participantsText(d.participants)
    \o <<"\n", "Last Message: ", d.lastMessage, "\n",
         "Last Message Date: ",
         IF d.lastDate = NullDate THEN "Unknown" ELSE toLocaleString(d.lastDate), "\n",
         "Unread Count: ", ToString(d.unreadCount), "\n",
         "Total Messages: ", ToString(total)>>

\* the locals getConversationDetails holds when it returns
getConversationDetailsLocals(chatId, reply) ==
    LET chatMessages == filterByChatId(messagesOf(reply), chatId.s)
    IN  IF reply.shape = "throw" \/ messagesThrows(reply) \/ Len(chatMessages) = 0
        THEN NoLocals
        ELSE [NoLocals EXCEPT !.chatMessages = chatMessages,
                              !.details = details(chatMessages)]

getConversationDetailsResume(chatId, reply) ==
    Rethrow("Failed to get conversation details: ",
        IF reply.shape = "throw" THEN Throw(ErrorMessage(reply.err))
        ELSE IF messagesThrows(reply) THEN Throw(TypeErrorMessage)
        ELSE LET chatMessages == filterByChatId(messagesOf(reply), chatId.s)
             IN  IF Len(chatMessages) = 0
                 THEN Return(<<"No messages found for chat ID: ", chatId.s>>)
                 ELSE Return(formatDetails(chatId.s, details(chatMessages),
                                           Len(chatMessages))))

(***************************************************************************)
(* tools/imessage.ts: the other three handlers.                            *)
(***************************************************************************)
handleReadMessagesToolCall(args) ==
    IF ArgsFalsy(args)
    THEN Throw(<<"No arguments provided">>)
    ELSE IF ~isReadMessagesArgs(args)
    THEN Throw(<<"Invalid arguments for photon_read_messages">>)
    ELSE readMessagesCall(args)

handleReadMessagesToolResume(args, reply) == readMessagesResume(args, reply)

handleGetConversationsToolCall(args) ==
    IF ArgsFalsy(args)
    THEN Throw(<<"No arguments provided">>)
    ELSE IF ~isGetConversationsArgs(args)
    THEN Throw(<<"Invalid arguments for photon_get_conversations">>)
    ELSE getConversationsCall(args)

handleGetConversationsToolResume(args, reply) == getConversationsResume(args, reply)

handleGetConversationDetailsToolCall(args) ==
    IF ArgsFalsy(args) \/ ~ArgsIsObject(args) \/ ~HasKey(args, "chatId")
    THEN Throw(<<"chatId is required">>)
    ELSE IF TypeOf(Prop(args, "chatId")) # "string"
    THEN Throw(<<"chatId must be a string">>)
    ELSE getConversationDetailsCall(Prop(args, "chatId"))

handleGetConversationDetailsToolResume(args, reply) ==
    getConversationDetailsResume(Prop(args, "chatId"), reply)

(***************************************************************************)
(* server.ts: the CallTool request handler's switch.                       *)
(***************************************************************************)
RegisteredTools == {"photon_send_message", "photon_read_messages",
                    "photon_get_conversations", "photon_get_conversation_details"}

\* the switch matching names without regard to case or trailing blanks
DispatchLoosely(name) ==
    CASE name \in {"photon_send_message", "Photon_Send_Message", "photon_send_message "}
                                                  -> "handleSendMessageTool"
      [] name = "photon_read_messages"            -> "handleReadMessagesTool"
      [] name = "photon_get_conversations"        -> "handleGetConversationsTool"
      [] name = "photon_get_conversation_details" -> "handleGetConversationDetailsTool"
      [] OTHER                                    -> "default"

\* the case the switch takes for `name`
Dispatch(name) ==
    CASE name = "photon_send_message"             -> "handleSendMessageTool"
      [] name = "photon_read_messages"            -> "handleReadMessagesTool"
      [] name = "photon_get_conversations"        -> "handleGetConversationsTool"
      [] name = "photon_get_conversation_details" -> "handleGetConversationDetailsTool"
      [] OTHER                                    -> "default"

(***************************************************************************)
(* The requests the transport delivers.                                    *)
(***************************************************************************)
ToolNames == RegisteredTools \cup
    {"photon_delete_message", "Photon_Send_Message", "photon_send_message ", ""}

\* no arguments, null, a primitive, the empty object
CommonArgs == {NoArgs, ArgsPrim(Null), ArgsPrim(Str("x")), ArgsPrim(Num(0)),
               ArgsObject(Absent, Absent, Absent, Absent, Absent)}

SendArgs == CommonArgs \cup
    { ArgsObject(r, x, c, Absent, Absent) :
        r \in {Absent, Str(""), Str("+15551234567"), Str("(555) 123-4567"),
               Str("nobody"), Num(5)},
        x \in {Absent, Str(""), Str("hi"), Num(7)},
        c \in {Absent, Str("c1")} }

ReadArgs == CommonArgs \cup
    { ArgsObject(r, Absent, Absent, l, u) :
        r \in {Absent, Str(""), Str("User@Example.com"), Str("nobody"), Num(5)},
        l \in {Absent, Num(0), Num(2), Str("many")},
        u \in {Absent, Bool(TRUE), Bool(FALSE), Str("no")} }

\* limit is absent or a number here (limit * 10 of anything else is NaN)
ConversationsArgs == CommonArgs \cup
    { ArgsObject(Absent, Absent, Absent, l, Absent) :
        l \in {Num(-1), Num(0), Num(1), Num(2)} }

DetailsArgs == CommonArgs \cup
    { ArgsObject(Absent, Absent, c, Absent, Absent) :
        c \in {Str(""), Str("c1"), Str("c2"), Str("abc"), Num(5)} }

ArgsOf(name) ==
    CASE name = "photon_send_message"             -> SendArgs
      [] name = "photon_read_messages"            -> ReadArgs
      [] name = "photon_get_conversations"        -> ConversationsArgs
      [] name = "photon_get_conversation_details" -> DetailsArgs
      [] OTHER                                    -> CommonArgs

\* no request being served
NoRequest == [name |-> "", args |-> NoArgs]

(***************************************************************************)
(* server.ts: the CallTool handler as one async function of its request.   *)
(***************************************************************************)
\* the handler up to its first await: the switch on the tool name, the
\* handler's checks, the call it awaits
CallToolRequestCall(name, args) ==
    CASE Dispatch(name) = "handleSendMessageTool" ->
            Settle(handleSendMessageToolCall(args))
      [] Dispatch(name) = "handleReadMessagesTool" ->
            Settle(handleReadMessagesToolCall(args))
      [] Dispatch(name) = "handleGetConversationsTool" ->
            Settle(handleGetConversationsToolCall(args))
      [] Dispatch(name) = "handleGetConversationDetailsTool" ->
            Settle(handleGetConversationDetailsToolCall(args))
      [] OTHER ->
            [done |-> TRUE,
             result |-> McpError(MethodNotFound, <<"Unknown tool: ">> \o Frag(name)),
             call |-> NoCall]

\* the handler from its await to its return
CallToolRequestResume(name, args, reply) ==
    CASE Dispatch(name) = "handleSendMessageTool" ->
            Settle(handleSendMessageToolResume(args, reply)).result
      [] Dispatch(name) = "handleReadMessagesTool" ->
            Settle(handleReadMessagesToolResume(args, reply)).result
      [] Dispatch(name) = "handleGetConversationsTool" ->
            Settle(handleGetConversationsToolResume(args, reply)).result
      [] OTHER ->
            Settle(handleGetConversationDetailsToolResume(args, reply)).result

\* one invocation of the handler: its request, the SDK calls it made, the
\* reply to the call it awaited, its result; `overlapped` records that
\* another invocation was suspended at its await when this one returned
Frame(at, req, calls, reply, result, overlapped) ==
    [pc |-> at, request |-> req, sdkCalls |-> calls, sdkReply |-> reply,
     response |-> result, overlapped |-> overlapped]

IdleFrame == Frame("idle", NoRequest, << >>, NoReply, NoResponse, FALSE)

Slots == 1..NumSlots

\* the requests in flight together
ConcurrentRequests ==
    { [name |-> "photon_send_message",
       args |-> ArgsObject(Str("+15551234567"), Str("hi"), Absent, Absent, Absent)],
      [name |-> "photon_send_message",
       args |-> ArgsObject(Str("nobody"), Str("hi"), Absent, Absent, Absent)],
      [name |-> "photon_read_messages",
       args |-> ArgsObject(Absent, Absent, Absent, Num(2), Absent)],
      [name |-> "photon_get_conversations",
       args |-> ArgsObject(Absent, Absent, Absent, Num(1), Absent)],
      [name |-> "photon_get_conversations",
       args |-> ArgsObject(Absent, Absent, Absent, Num(2), Absent)],
      [name |-> "photon_get_conversation_details",
       args |-> ArgsObject(Absent, Absent, Str("c1"), Absent, Absent)],
      [name |-> "photon_get_conversation_details",
       args |-> ArgsObject(Absent, Absent, Str("c2"), Absent, Absent)],
      [name |-> "photon_delete_message", args |-> NoArgs] }

\* what the SDK answers them: each call gets an answer of its own
ConcurrentReplies(call) ==
    IF call.op = "send"
    THEN { Returned("void", << >>), Threw(ErrorObject(<<"Database is locked">>)) }
    ELSE { Returned("array", << >>),
           Returned("array",
                    <<Msg("c1", "a", 2, FALSE, FALSE, "alice", FALSE, "iMessage"),
                      Msg("c2", "f", 3, FALSE, FALSE, "", FALSE, "iMessage")>>),
           Returned("wrapper",
                    <<Msg("c2", "d", 1, FALSE, FALSE, "alice", FALSE, "iMessage"),
                      Msg("c1", "", 3, FALSE, TRUE, "bob", TRUE, "")>>),
           Threw(ErrorObject(<<"Database is locked">>)) }

\* the request kept in one field of the server, written by the invocation
\* in the lowest slot in flight and read by all
requestParamsShared(fr, slot) ==
    LET first == CHOOSE t \in Slots :
                    /\ fr[t].pc # "idle"
                    /\ \A u \in Slots : fr[u].pc # "idle" => t <= u
    IN  fr[first].request

\* const { name, arguments: args } = request.params: constants of the
\* invocation, which its continuation closes over
requestParams(fr, slot) == fr[slot].request

(***************************************************************************)
(* client.ts: the PhotonClient constructor and close; server.ts: the       *)
(* shutdown closure of setupErrorHandling.                                 *)
(***************************************************************************)
\* what console.log and console.info may be bound to when the process
\* starts: the built-ins, or functions the host installed in their place
LogFunctions == {"console.log", "hostLog"}
InfoFunctions == {"console.info", "hostInfo"}

\* () => {}
NoOp == "() => {}"

Console(log, info) == [log |-> log, info |-> info]

\* no PhotonClient yet
NoClient == [sdk |-> "none", originalConsoleLog |-> "", originalConsoleInfo |-> "",
             error |-> << >>]

\* what new IMessageSDK(...) does: it returns a handle or it throws
SdkConstructorOutcomes == {Returned("handle", << >>)} \cup { Threw(e) : e \in SdkThrown }

\* new PhotonClient(): the global console and the client it leaves behind.
\* The two restoring assignments follow `new IMessageSDK` inside the try
\* block; the catch block rethrows and restores nothing.
PhotonClientConstructor(cons, outcome) ==
    LET originalConsoleLog  == cons.log
        originalConsoleInfo == cons.info
        suppressed          == Console(NoOp, NoOp)
    IN  IF outcome.shape # "throw"
        THEN [console |-> Console(originalConsoleLog, originalConsoleInfo),
              client  |-> [sdk |-> "open",
                           originalConsoleLog |-> originalConsoleLog,
                           originalConsoleInfo |-> originalConsoleInfo,
                           error |-> << >>]]
        ELSE [console |-> suppressed,
              client  |-> [sdk |-> "none",
                           originalConsoleLog |-> originalConsoleLog,
                           originalConsoleInfo |-> originalConsoleInfo,
                           error |-> <<"Failed to initialize Photon SDK: ">>
                                     \o ErrorMessage(outcome.err)]]

\* the signals `cleanup` is registered for
ShutdownSignals == {"SIGINT", "SIGTERM"}

\* how an awaited close() settles
CloseOutcomes == {"resolves", "rejects"}

\* one invocation of `cleanup`, suspended at an await or run to process.exit
Cleanup(signal, at) == [signal |-> signal, pc |-> at]

\* process.exit(0) ran
Exited == \E i \in 1..Len(events) : events[i] = "process.exit"

\* a running server: the client constructed over the built-in console
RunningClient == PhotonClientConstructor(Console("console.log", "console.info"),
                                         Returned("handle", << >>))

(***************************************************************************)
(* The state machine.                                                      *)
(***************************************************************************)
Init ==
    /\ pc = "idle"
    /\ request = NoRequest
    /\ sdkCalls = << >>
    /\ sdkReply = NoReply
    /\ response = NoResponse
    /\ locals = NoLocals
    /\ console = RunningClient.console
    /\ client = RunningClient.client
    /\ cleanups = << >>
    /\ events = << >>
    /\ frames = [slot \in Slots |-> IdleFrame]

\* the handler ran up to its first await, or to its end
Started(name, args, step, awaiting) ==
    LET st == Settle(step)
    IN  /\ request' = [name |-> name, args |-> args]
        /\ sdkReply' = NoReply
        /\ response' = st.result
        /\ sdkCalls' = IF st.done THEN << >> ELSE <<st.call>>
        /\ pc' = IF st.done THEN "done" ELSE awaiting
        /\ locals' = NoLocals
        /\ UNCHANGED <<processVars, frames>>

\* the handler ran from its await to its end
Finished(reply, step, frame) ==
    /\ sdkReply' = reply
    /\ locals' = frame
    /\ response' = Settle(step).result
    /\ pc' = "done"
    /\ UNCHANGED <<request, sdkCalls>>
    /\ UNCHANGED <<processVars, frames>>

Ready == pc = "idle"

\* the transport carried the response back; nothing of the request is kept
Respond ==
    /\ pc = "done"
    /\ pc' = "idle"
    /\ request' = NoRequest
    /\ sdkCalls' = << >>
    /\ sdkReply' = NoReply
    /\ response' = NoResponse
    /\ locals' = NoLocals
    /\ UNCHANGED <<processVars, frames>>

CallSendMessage ==
    /\ Ready
    /\ \E name \in ToolNames : \E args \in ArgsOf(name) :
        /\ Dispatch(name) = "handleSendMessageTool"
        /\ Started(name, args, handleSendMessageToolCall(args), "awaitSend")

SendSettles ==
    /\ pc = "awaitSend"
    /\ \E reply \in SendReplies :
        Finished(reply, handleSendMessageToolResume(request.args, reply), NoLocals)

CallReadMessages ==
    /\ Ready
    /\ \E name \in ToolNames : \E args \in ArgsOf(name) :
        /\ Dispatch(name) = "handleReadMessagesTool"
        /\ Started(name, args, handleReadMessagesToolCall(args), "awaitRead")

ReadSettles ==
    /\ pc = "awaitRead"
    /\ \E reply \in GetMessagesReplies :
        Finished(reply, handleReadMessagesToolResume(request.args, reply), NoLocals)

CallGetConversations ==
    /\ Ready
    /\ \E name \in ToolNames : \E args \in ArgsOf(name) :
        /\ Dispatch(name) = "handleGetConversationsTool"
        /\ Started(name, args, handleGetConversationsToolCall(args), "awaitConversations")

ConversationsSettle ==
    /\ pc = "awaitConversations"
    /\ \E reply \in GetMessagesReplies :
        Finished(reply, handleGetConversationsToolResume(request.args, reply),
                 getConversationsLocals(request.args, reply))

CallGetConversationDetails ==
    /\ Ready
    /\ \E name \in ToolNames : \E args \in ArgsOf(name) :
        /\ Dispatch(name) = "handleGetConversationDetailsTool"
        /\ Started(name, args, handleGetConversationDetailsToolCall(args), "awaitDetails")

DetailsSettle ==
    /\ pc = "awaitDetails"
    /\ \E reply \in GetMessagesReplies :
        Finished(reply, handleGetConversationDetailsToolResume(request.args, reply),
                 getConversationDetailsLocals(Prop(request.args, "chatId"), reply))

\* default: throw new McpError(ErrorCode.MethodNotFound, `Unknown tool: ${name}`)
CallUnknownTool ==
    /\ Ready
    /\ \E name \in ToolNames : \E args \in ArgsOf(name) :
        /\ Dispatch(name) = "default"
        /\ request' = [name |-> name, args |-> args]
        /\ response' = McpError(MethodNotFound, <<"Unknown tool: ">> \o Frag(name))
        /\ sdkCalls' = << >>
        /\ sdkReply' = NoReply
        /\ locals' = NoLocals
        /\ pc' = "done"
        /\ UNCHANGED <<processVars, frames>>

Next ==
    \/ CallSendMessage
    \/ SendSettles
    \/ CallReadMessages
    \/ ReadSettles
    \/ CallGetConversations
    \/ ConversationsSettle
    \/ CallGetConversationDetails
    \/ DetailsSettle
    \/ CallUnknownTool
    \/ Respond

Spec == Init /\ [][Next]_vars

(***************************************************************************)
(* The process from its start to process.exit: the construction of the     *)
(* server and its client, the shutdown signals and the cleanup they run.   *)
(***************************************************************************)
InitProcess ==
    /\ pc = "idle"
    /\ request = NoRequest
    /\ sdkCalls = << >>
    /\ sdkReply = NoReply
    /\ response = NoResponse
    /\ locals = NoLocals
    /\ \E log \in LogFunctions : \E info \in InfoFunctions :
          console = Console(log, info)
    /\ client = NoClient
    /\ cleanups = << >>
    /\ events = << >>
    /\ frames = [slot \in Slots |-> IdleFrame]

\* new PhotonServer(): this.client = new PhotonClient() first; when it
\* throws, setupErrorHandling is never reached and no cleanup is registered
NewPhotonServer ==
    /\ client = NoClient
    /\ \E outcome \in SdkConstructorOutcomes :
          LET made == PhotonClientConstructor(console, outcome)
          IN  /\ console' = made.console
              /\ client' = made.client
    /\ UNCHANGED <<cleanups, events>>
    /\ UNCHANGED <<toolVars, frames>>

\* a signal runs `cleanup` up to `await this.client.close()`, which has
\* called this.sdk.close(); nothing tells whether cleanup already runs
cleanup(signal) ==
    /\ client.sdk = "open"
    /\ ~Exited
    /\ Len(cleanups) < MaxSignals
    /\ cleanups' = Append(cleanups, Cleanup(signal, "awaitClientClose"))
    /\ events' = Append(events, "sdk.close")
    /\ UNCHANGED <<console, client>>
    /\ UNCHANGED <<toolVars, frames>>

Signal == \E signal \in ShutdownSignals : cleanup(signal)

\* this.client.close() settles: on success cleanup goes on to
\* `await this.server.close()`; on failure the catch block logs, skipping
\* this.server.close(), and process.exit(0) follows
ClientCloseSettles ==
    /\ ~Exited
    /\ \E i \in 1..Len(cleanups) : \E outcome \in CloseOutcomes :
          /\ cleanups[i].pc = "awaitClientClose"
          /\ IF outcome = "resolves"
             THEN /\ cleanups' = [cleanups EXCEPT ![i].pc = "awaitServerClose"]
                  /\ events' = Append(events, "server.close")
             ELSE /\ cleanups' = [cleanups EXCEPT ![i].pc = "exited"]
                  /\ events' = events \o <<"console.error", "process.exit">>
    /\ UNCHANGED <<console, client>>
    /\ UNCHANGED <<toolVars, frames>>

\* this.server.close() settles: process.exit(0), after the catch block's
\* console.error on failure
ServerCloseSettles ==
    /\ ~Exited
    /\ \E i \in 1..Len(cleanups) : \E outcome \in CloseOutcomes :
          /\ cleanups[i].pc = "awaitServerClose"
          /\ cleanups' = [cleanups EXCEPT ![i].pc = "exited"]
          /\ events' = IF outcome = "resolves"
                       THEN Append(events, "process.exit")
                       ELSE events \o <<"console.error", "process.exit">>
    /\ UNCHANGED <<console, client>>
    /\ UNCHANGED <<toolVars, frames>>

NextLifecycle ==
    \/ NewPhotonServer
    \/ Signal
    \/ ClientCloseSettles
    \/ ServerCloseSettles

SpecLifecycle == InitProcess /\ [][NextLifecycle]_vars

(***************************************************************************)
(* One server serving several CallTool requests at once: each invocation   *)
(* of the async handler runs to its await, and resumes when the SDK        *)
(* answers its call, in any order.                                         *)
(***************************************************************************)
InitConcurrent == Init

\* some other invocation is suspended at its await
OthersAwaiting(slot) == \E t \in Slots \ {slot} : frames[t].pc = "await"

\* a request arrives: its invocation runs to its first await, or to its end
Invoke(slot) ==
    /\ frames[slot].pc = "idle"
    /\ \E req \in ConcurrentRequests :
          LET st == CallToolRequestCall(req.name, req.args)
          IN  frames' = [frames EXCEPT ![slot] =
                  IF st.done
                  THEN Frame("done", req, << >>, NoReply, st.result,
                             OthersAwaiting(slot))
                  ELSE Frame("await", req, <<st.call>>, NoReply, NoResponse, FALSE)]
    /\ UNCHANGED <<toolVars, processVars>>

\* the SDK answers the call of one invocation, which runs to its end
Settles(slot) ==
    /\ frames[slot].pc = "await"
    /\ \E reply \in ConcurrentReplies(frames[slot].sdkCalls[1]) :
          LET req == requestParams(frames, slot)
          IN  frames' = [frames EXCEPT ![slot] =
                  Frame("done", frames[slot].request, frames[slot].sdkCalls, reply,
                        CallToolRequestResume(req.name, req.args, reply),
                        OthersAwaiting(slot))]
    /\ UNCHANGED <<toolVars, processVars>>

\* the transport carried the result of one invocation back
Responds(slot) ==
    /\ frames[slot].pc = "done"
    /\ frames' = [frames EXCEPT ![slot] = IdleFrame]
    /\ UNCHANGED <<toolVars, processVars>>

NextConcurrent ==
    \/ \E slot \in Slots : Invoke(slot)
    \/ \E slot \in Slots : Settles(slot)
    \/ \E slot \in Slots : Responds(slot)

SpecConcurrent == InitConcurrent /\ [][NextConcurrent]_vars

(***************************************************************************)
(* Vocabulary of the properties.                                           *)
(***************************************************************************)
StartsWith(text, prefix) ==
    Len(text) >= Len(prefix) /\ SubSeq(text, 1, Len(prefix)) = prefix

EndsWith(text, suffix) ==
    Len(text) >= Len(suffix)
    /\ SubSeq(text, Len(text) - Len(suffix) + 1, Len(text)) = suffix

Contains(text, fragment) == \E i \in 1..Len(text) : text[i] = fragment

Served(name) == pc # "idle" /\ request.name = name

Answered(name) == pc = "done" /\ request.name = name

\* the reason a thrown value carries: an Error's message, any other value as text
Reason(error) ==
    IF error.instanceofError THEN error.message ELSE <<JSString(error.value)>>

SendsMade == { i \in 1..Len(sdkCalls) : sdkCalls[i].op = "send" }

QueriesMade == { i \in 1..Len(sdkCalls) : sdkCalls[i].op = "getMessages" }

(***************************************************************************)
(* C1: each of the four handlers always hands back a result envelope,      *)
(* never a fault; when validation stopped the request before any SDK call  *)
(* or the SDK threw, the envelope is error-flagged and its text is         *)
(* "Error: " followed by a cause, which is the SDK's reason when the SDK   *)
(* threw.                                                                  *)
(***************************************************************************)
C1_HandlersAlwaysReturnEnvelope ==
    \A name \in RegisteredTools :
        Answered(name) =>
            /\ response.kind = "envelope"
            /\ (sdkCalls = << >> \/ sdkReply.shape = "throw") =>
                  /\ response.isError
                  /\ StartsWith(response.text, <<"Error: ">>)
                  /\ Len(response.text) >= 2
            /\ sdkReply.shape = "throw" =>
                  EndsWith(response.text, Reason(sdkReply.err))
            /\ response.isError <=> StartsWith(response.text, <<"Error: ">>)

C1_Witness ==
    /\ Answered("photon_get_conversations")
    /\ sdkReply.shape = "throw"
    /\ response = CallToolResult(
          <<"Error: ", "Failed to get conversations: ", "Database is locked">>, TRUE)

(***************************************************************************)
(* C2: a request whose name is not exactly one of the four registered      *)
(* names is answered with the method-not-found fault, with no handler run  *)
(* and no SDK call made; a request with a registered name is never         *)
(* answered with a fault.                                                  *)
(***************************************************************************)
C2_UnknownToolIsMethodNotFound ==
    /\ (pc # "idle" /\ request.name \notin RegisteredTools) =>
          /\ pc = "done"
          /\ response.kind = "fault"
          /\ response.code = MethodNotFound
          /\ sdkCalls = << >>
    /\ (pc = "done" /\ request.name \in RegisteredTools) =>
          response.kind = "envelope"

C2_Witness ==
    /\ Answered("Photon_Send_Message")
    /\ response = McpError(MethodNotFound, <<"Unknown tool: ", "Photon_Send_Message">>)

(***************************************************************************)
(* C3: send-message arguments that lack `recipient` or `text`, or carry    *)
(* either as a non-string or as the empty string.                          *)
(***************************************************************************)
SendKeys == {"recipient", "text"}

\* a key is missing or not a string
SendArgsMistyped(args) ==
    args.kind = "object" /\ \E key \in SendKeys : args[key].t # "string"

\* both are strings and one is empty
SendArgsBlank(args) ==
    /\ args.kind = "object"
    /\ \A key \in SendKeys : args[key].t = "string"
    /\ \E key \in SendKeys : args[key].s = ""

\* C3 as stated: every such request is answered error-flagged with a text
\* containing "Required: recipient, text", and the SDK send is never invoked
C3_AsStated ==
    (Served("photon_send_message")
        /\ (SendArgsMistyped(request.args) \/ SendArgsBlank(request.args))) =>
        /\ pc = "done"
        /\ response.isError
        /\ Contains(response.text, "Required: recipient, text")
        /\ SendsMade = {}

\* C3 as amended: a missing or non-string `recipient` or `text` is answered
\* error-flagged with "Required: recipient, text"; an empty-string one (both
\* being strings) is answered error-flagged with "Recipient and text are
\* required"; in both cases the SDK send is never invoked
C3_InvalidSendArgsRejected ==
    /\ (Served("photon_send_message") /\ SendArgsMistyped(request.args)) =>
          /\ pc = "done"
          /\ response.isError
          /\ Contains(response.text, "Required: recipient, text")
          /\ SendsMade = {}
    /\ (Served("photon_send_message") /\ SendArgsBlank(request.args)) =>
          /\ pc = "done"
          /\ response.isError
          /\ Contains(response.text, "Recipient and text are required")
          /\ ~Contains(response.text, "Required: recipient, text")
          /\ SendsMade = {}

C3_Witness ==
    /\ Answered("photon_send_message")
    /\ request.args = ArgsObject(Str("+15551234567"), Absent, Absent, Absent, Absent)
    /\ response.isError
    /\ Contains(response.text, "Required: recipient, text")

(***************************************************************************)
(* C4: a send-message request with a non-empty string recipient the SDK    *)
(* parser accepts and a non-empty string text, whose SDK send succeeds:    *)
(* the SDK send was invoked exactly once, with the parsed recipient and    *)
(* that text, and the result is not error-flagged and reads exactly        *)
(* "Message sent successfully to " followed by the recipient as supplied.  *)
(***************************************************************************)
SendArgsWellFormed(args) ==
    /\ args.kind = "object"
    /\ \A key \in SendKeys : args[key].t = "string" /\ args[key].s # ""

C4_SendSuccess ==
    (Answered("photon_send_message")
        /\ SendArgsWellFormed(request.args)
        /\ asRecipientAccepts(request.args.recipient)
        /\ sdkReply.shape = "void") =>
        /\ sdkCalls = <<SendCall(asRecipient(request.args.recipient), request.args.text.s)>>
        /\ response = CallToolResult(
              <<"Message sent successfully to ", request.args.recipient.s>>, FALSE)

C4_Witness ==
    /\ Answered("photon_send_message")
    /\ request.args.recipient = Str("(555) 123-4567")
    /\ request.args.text = Str("hi")
    /\ sdkReply.shape = "void"
    /\ sdkCalls = <<SendCall("+15551234567", "hi")>>
    /\ response = CallToolResult(<<"Message sent successfully to ", "(555) 123-4567">>, FALSE)

(***************************************************************************)
(* C5: in send-message, when the SDK parser rejects the recipient the SDK  *)
(* send is never invoked and the error-flagged result names the recipient  *)
(* as supplied; when the parser accepts and the SDK send fails, the        *)
(* error-flagged result carries the SDK's reason.                          *)
(***************************************************************************)
C5_RejectedRecipientNeverSent ==
    /\ (Served("photon_send_message")
          /\ SendArgsWellFormed(request.args)
          /\ ~asRecipientAccepts(request.args.recipient)) =>
          /\ pc = "done"
          /\ SendsMade = {}
          /\ response.isError
          /\ StartsWith(response.text, <<"Error: ", "Failed to send message: ",
                                         "Invalid recipient format: ",
                                         request.args.recipient.s>>)
    /\ (Answered("photon_send_message") /\ sdkReply.shape = "throw") =>
          /\ asRecipientAccepts(request.args.recipient)
          /\ response.isError
          /\ response.text = <<"Error: ", "Failed to send message: ">>
                             \o Reason(sdkReply.err)

C5_Witness ==
    /\ Answered("photon_send_message")
    /\ request.args.recipient = Str("nobody")
    /\ request.args.text = Str("hi")
    /\ SendsMade = {}
    /\ response.isError
    /\ Contains(response.text, "nobody")

(***************************************************************************)
(* C6: a read-messages request in which `limit` is present and not a       *)
(* number, or `unreadOnly` is present and not a boolean, or `recipient` is *)
(* present and not a string, fails validation: the result is error-flagged *)
(* and the SDK query is never invoked with the mistyped value.             *)
(***************************************************************************)
ReadArgsMistyped(args) ==
    /\ args.kind = "object"
    /\ \/ args.limit.t \notin {"absent", "number"}
       \/ args.unreadOnly.t \notin {"absent", "boolean"}
       \/ args.recipient.t \notin {"absent", "string"}

C6_MistypedReadArgsRejected ==
    (Served("photon_read_messages") /\ ReadArgsMistyped(request.args)) =>
        /\ pc = "done" => response.isError
        /\ \A i \in QueriesMade :
              /\ sdkCalls[i].filter.limit.t \in {"absent", "number"}
              /\ sdkCalls[i].filter.unreadOnly.t \in {"absent", "boolean"}
              /\ sdkCalls[i].filter.sender.t \in {"absent", "string"}

(***************************************************************************)
(* C7: a read-messages or get-conversations request that supplies none of  *)
(* the optional arguments.                                                 *)
(***************************************************************************)
EmptyObject == ArgsObject(Absent, Absent, Absent, Absent, Absent)

ChatIdsOf(messages) == { messages[i].chatId : i \in 1..Len(messages) }

\* the request passed validation and the SDK was queried exactly once with
\* the defaults: read-messages with limit 50 and no unread-only filter,
\* get-conversations with 10 messages for each of 50 conversations and, when
\* the SDK returns a list, every conversation of the snapshot listed
QueriedWithDefaults ==
    /\ Served("photon_read_messages") =>
          sdkCalls = <<GetMessagesCall(Filter(Absent, Absent, Num(50)))>>
    /\ Served("photon_get_conversations") =>
          /\ sdkCalls = <<GetMessagesCall(Filter(Absent, Absent, Num(500)))>>
          /\ (pc = "done" /\ sdkReply.shape = "array") =>
                /\ ~response.isError
                /\ Len(locals.conversations) = Cardinality(ChatIdsOf(sdkReply.messages))

DefaultsRequest(argsSet) ==
    /\ pc # "idle"
    /\ request.name \in {"photon_read_messages", "photon_get_conversations"}
    /\ request.args \in argsSet

\* C7 as stated: the argument object is empty or absent
C7_AsStated ==
    DefaultsRequest({EmptyObject, NoArgs}) => QueriedWithDefaults

\* C7 as amended: an empty argument object is accepted and the SDK is queried
\* exactly once with the defaults; an absent argument value is answered with
\* the error-flagged "Error: No arguments provided" and no SDK query is made
C7_EmptyArgsUseDefaults ==
    /\ DefaultsRequest({EmptyObject}) => QueriedWithDefaults
    /\ DefaultsRequest({NoArgs}) =>
          /\ pc = "done"
          /\ sdkCalls = << >>
          /\ response = CallToolResult(<<"Error: ", "No arguments provided">>, TRUE)

C7_Witness ==
    /\ Answered("photon_get_conversations")
    /\ request.args = EmptyObject
    /\ sdkCalls = <<GetMessagesCall(Filter(Absent, Absent, Num(500)))>>
    /\ sdkReply.shape = "array"
    /\ Len(locals.conversations) = 3
    /\ ~response.isError

(***************************************************************************)
(* C8: when the SDK returns an empty message sequence (a bare empty list,  *)
(* or a wrapper whose `messages` is empty, null or missing), read-messages *)
(* answers "No messages found", get-conversations "No conversations        *)
(* found", and get-conversation-details for chat id X "No messages found   *)
(* for chat ID: X", the latter also whenever no record of the snapshot has *)
(* chat id X; none of these results is error-flagged.                      *)
(***************************************************************************)
ReturnedSnapshot ==
    sdkReply.shape \in {"array", "wrapper", "wrapperNoMessages", "wrapperNullMessages"}

C8_EmptySnapshotSentinels ==
    /\ (Answered("photon_read_messages") /\ ReturnedSnapshot
          /\ sdkReply.messages = << >>) =>
          response = CallToolResult(<<"No messages found">>, FALSE)
    /\ (Answered("photon_get_conversations") /\ ReturnedSnapshot
          /\ sdkReply.messages = << >>) =>
          response = CallToolResult(<<"No conversations found">>, FALSE)
    /\ (Answered("photon_get_conversation_details") /\ ReturnedSnapshot
          /\ request.args.chatId.s \notin ChatIdsOf(sdkReply.messages)) =>
          response = CallToolResult(
              <<"No messages found for chat ID: ", request.args.chatId.s>>, FALSE)

C8_Witness ==
    /\ Answered("photon_get_conversation_details")
    /\ request.args.chatId = Str("abc")
    /\ sdkReply.shape = "wrapper"
    /\ Len(sdkReply.messages) = 2
    /\ response = CallToolResult(<<"No messages found for chat ID: ", "abc">>, FALSE)

(***************************************************************************)
(* C9: for every `limit` (0 and negative numbers included) and every       *)
(* snapshot, a get-conversations result that is not error-flagged is       *)
(* either exactly "No conversations found" or contains at least one        *)
(* conversation block; its text is never empty.                            *)
(***************************************************************************)
C9_ConversationsTextNeverEmpty ==
    (Answered("photon_get_conversations") /\ ~response.isError) =>
        /\ response.text # << >>
        /\ \/ response.text = <<"No conversations found">>
           \/ Contains(response.text, "Chat ID: ")

(***************************************************************************)
(* C10: the grouping step of get-conversations produces exactly one        *)
(* summary for each distinct conversation id of the message sequence and   *)
(* no summary for an id absent from it.                                    *)
(***************************************************************************)
C10_OneSummaryPerConversation ==
    (Answered("photon_get_conversations") /\ ReturnedSnapshot) =>
        LET map == locals.conversationMap
        IN  /\ \A id \in ChatIdsOf(sdkReply.messages) :
                  Cardinality({ i \in 1..Len(map) : map[i].chatId = id }) = 1
            /\ \A i \in 1..Len(map) : map[i].chatId \in ChatIdsOf(sdkReply.messages)

C10_Witness ==
    /\ Answered("photon_get_conversations")
    /\ sdkReply.shape = "array"
    /\ Len(sdkReply.messages) = 3
    /\ ChatIdsOf(sdkReply.messages) = {"c1", "c2"}
    /\ Len(locals.conversationMap) = 2

(***************************************************************************)
(* Vocabulary of the aggregation properties.                               *)
(***************************************************************************)
\* the positions of the records of conversation `id` in a message sequence
RecordsOf(messages, id) == { j \in 1..Len(messages) : messages[j].chatId = id }

\* those among them not sent by the local user and not marked read
UnreadOf(messages, id) ==
    { j \in RecordsOf(messages, id) : ~messages[j].isFromMe /\ ~messages[j].isRead }

\* the fragment that follows `label` in a text
FieldAfter(text, label) ==
    LET at == CHOOSE i \in 1..Len(text) : text[i] = label
    IN  text[at + 1]

\* get-conversations grouped a snapshot that holds at least one record
Grouped ==
    /\ Answered("photon_get_conversations")
    /\ ReturnedSnapshot
    /\ sdkReply.messages # << >>

\* get-conversation-details accumulated the records of its chat id
Detailed ==
    /\ Answered("photon_get_conversation_details")
    /\ ReturnedSnapshot
    /\ request.args.chatId.s \in ChatIdsOf(sdkReply.messages)

(***************************************************************************)
(* C11: the unread count reported for a conversation, by get-conversations *)
(* and by get-conversation-details, is the number of records of that       *)
(* conversation that are not sent by the local user and not marked read.   *)
(***************************************************************************)
C11_UnreadCount ==
    /\ Grouped =>
          /\ \A i \in 1..Len(locals.conversationMap) :
                locals.conversationMap[i].unreadCount =
                    Cardinality(UnreadOf(sdkReply.messages,
                                         locals.conversationMap[i].chatId))
          /\ \A i \in 1..Len(locals.conversations) :
                locals.conversations[i].unreadCount =
                    Cardinality(UnreadOf(sdkReply.messages,
                                         locals.conversations[i].chatId))
    /\ Detailed =>
          /\ locals.details.unreadCount =
                Cardinality(UnreadOf(sdkReply.messages, request.args.chatId.s))
          /\ FieldAfter(response.text, "Unread Count: ") =
                ToString(Cardinality(UnreadOf(sdkReply.messages, request.args.chatId.s)))

C11_Witness ==
    /\ Detailed
    /\ request.args.chatId = Str("c1")
    /\ Len(sdkReply.messages) = 3
    /\ \E j \in 1..3 : sdkReply.messages[j].isFromMe /\ ~sdkReply.messages[j].isRead
    /\ \E j \in 1..3 : ~sdkReply.messages[j].isFromMe /\ sdkReply.messages[j].isRead
    /\ locals.details.unreadCount = 1
    /\ FieldAfter(response.text, "Unread Count: ") = "1"

\* the latest timestamp among the records of conversation `id`
MaxDateOf(messages, id) ==
    CHOOSE d \in { messages[j].date : j \in RecordsOf(messages, id) } :
        \A j \in RecordsOf(messages, id) : messages[j].date <= d

\* the first record of conversation `id`, in sequence order, carrying it
FirstLatestOf(messages, id) ==
    LET at == CHOOSE j \in RecordsOf(messages, id) :
                  /\ messages[j].date = MaxDateOf(messages, id)
                  /\ \A k \in RecordsOf(messages, id) :
                        messages[k].date = MaxDateOf(messages, id) => j <= k
    IN  messages[at]

\* the text shown for a record: its text, "(no text)" when it has none
ShownText(msg) == IF msg.text = "" THEN "(no text)" ELSE msg.text

(***************************************************************************)
(* C12: a summary's last-message timestamp is the maximum timestamp among  *)
(* the conversation's records, and its last-message text is the (shown)    *)
(* text of the first record in sequence order carrying that maximum; this  *)
(* holds for the grouping of get-conversations and for the accumulation of *)
(* get-conversation-details.                                               *)
(***************************************************************************)
C12_LastMessageIsFirstLatest ==
    /\ Grouped =>
          \A i \in 1..Len(locals.conversationMap) :
              LET conv == locals.conversationMap[i]
              IN  /\ conv.lastDate = MaxDateOf(sdkReply.messages, conv.chatId)
                  /\ conv.lastMessage =
                        ShownText(FirstLatestOf(sdkReply.messages, conv.chatId))
    /\ Detailed =>
          /\ locals.details.lastDate =
                MaxDateOf(sdkReply.messages, request.args.chatId.s)
          /\ locals.details.lastMessage =
                ShownText(FirstLatestOf(sdkReply.messages, request.args.chatId.s))
          /\ FieldAfter(response.text, "Last Message: ") =
                ShownText(FirstLatestOf(sdkReply.messages, request.args.chatId.s))

\* records of one conversation with different texts tie on the latest
\* timestamp: the summary keeps the first of them
C12_Witness ==
    /\ Grouped
    /\ Len(sdkReply.messages) = 3
    /\ \A j \in 1..3 : sdkReply.messages[j].chatId = "c1"
    /\ \A j \in 1..3 : sdkReply.messages[j].date = 2
    /\ sdkReply.messages[1].text # sdkReply.messages[2].text
    /\ Len(locals.conversationMap) = 1
    /\ locals.conversationMap[1].lastDate = 2
    /\ locals.conversationMap[1].lastMessage = sdkReply.messages[1].text

\* get-conversations answered over a snapshot, with an effective limit of
\* at least one (the default when `limit` is not given)
Listed ==
    /\ Answered("photon_get_conversations")
    /\ ReturnedSnapshot
    /\ limitOrDefault(request.args).t = "number"
    /\ limitOrDefault(request.args).n >= 1

Min(a, b) == IF a <= b THEN a ELSE b

\* the chat ids of the summaries a conversations text lists, in text order
RECURSIVE ChatIdsListed(_)
ChatIdsListed(text) ==
    IF Len(text) < 2 THEN << >>
    ELSE (IF text[1] = "Chat ID: " THEN <<text[2]>> ELSE << >>)
         \o ChatIdsListed(Tail(text))

(***************************************************************************)
(* C13: for a limit of at least one, get-conversations returns             *)
(* min(limit, number of distinct conversation ids) summaries, of distinct  *)
(* conversations, ordered by non-increasing last-message timestamp, and    *)
(* every conversation omitted has a last-message timestamp no later than   *)
(* that of every conversation returned.                                    *)
(***************************************************************************)
C13_LimitedAndOrdered ==
    Listed =>
        LET messages == sdkReply.messages
            limit    == limitOrDefault(request.args).n
            listed   == ChatIdsListed(response.text)
            returned == { listed[i] : i \in 1..Len(listed) }
        IN  /\ Len(listed) = Min(limit, Cardinality(ChatIdsOf(messages)))
            /\ Cardinality(returned) = Len(listed)
            /\ returned \subseteq ChatIdsOf(messages)
            /\ listed = [i \in 1..Len(locals.conversations) |->
                            locals.conversations[i].chatId]
            /\ \A i, j \in 1..Len(listed) :
                  i < j => MaxDateOf(messages, listed[i]) >= MaxDateOf(messages, listed[j])
            /\ \A omitted \in ChatIdsOf(messages) \ returned :
                  \A id \in returned :
                      MaxDateOf(messages, omitted) <= MaxDateOf(messages, id)

\* three messages across two chat ids, limit 1: exactly one summary, of the
\* conversation with the latest last message, which is not the first seen
C13_Witness ==
    /\ Listed
    /\ limitOrDefault(request.args).n = 1
    /\ Len(sdkReply.messages) = 3
    /\ Cardinality(ChatIdsOf(sdkReply.messages)) = 2
    /\ Len(ChatIdsListed(response.text)) = 1
    /\ ChatIdsListed(response.text)[1] # sdkReply.messages[1].chatId
    /\ \A id \in ChatIdsOf(sdkReply.messages) \ {ChatIdsListed(response.text)[1]} :
          MaxDateOf(sdkReply.messages, id) <
              MaxDateOf(sdkReply.messages, ChatIdsListed(response.text)[1])

\* the summary the get-conversations grouping computes for conversation `id`
SummaryOf(messages, id) ==
    LET map == conversationMap(messages)
        at  == CHOOSE i \in 1..Len(map) : map[i].chatId = id
    IN  map[at]

\* the members of an insertion-ordered set
Members(set) == { set[i] : i \in 1..Len(set) }

(***************************************************************************)
(* C17: for a chat id X occurring in the snapshot S, the last message      *)
(* text, the participant set and the unread count get-conversation-details *)
(* computes for X equal those of the summary the get-conversations         *)
(* grouping computes for X over the same S; the detail's type is           *)
(* "Group Chat" exactly when some record of X in S has the group flag, and *)
(* its total message count is the number of records of X in S.             *)
(***************************************************************************)
C17_DetailsAgreeWithGrouping ==
    Detailed =>
        LET messages == sdkReply.messages
            X        == request.args.chatId.s
            summary  == SummaryOf(messages, X)
            isGroup  == \E j \in RecordsOf(messages, X) : messages[j].isGroupChat
        IN  /\ locals.details.lastMessage = summary.lastMessage
            /\ Members(locals.details.participants) = Members(summary.participants)
            /\ locals.details.unreadCount = summary.unreadCount
            /\ FieldAfter(response.text, "Last Message: ") = summary.lastMessage
            /\ FieldAfter(response.text, "Unread Count: ") = ToString(summary.unreadCount)
            /\ locals.details.isGroupChat = isGroup
            /\ FieldAfter(response.text, "Type: ") =
                  (IF isGroup THEN "Group Chat" ELSE "1-on-1")
            /\ Len(locals.chatMessages) = Cardinality(RecordsOf(messages, X))
            /\ FieldAfter(response.text, "Total Messages: ") =
                  ToString(Cardinality(RecordsOf(messages, X)))

\* X has two records, one of them flagged as group, among records of
\* another conversation
C17_Witness ==
    /\ Detailed
    /\ Len(sdkReply.messages) = 3
    /\ Cardinality(RecordsOf(sdkReply.messages, request.args.chatId.s)) = 2
    /\ \E j \in RecordsOf(sdkReply.messages, request.args.chatId.s) :
          sdkReply.messages[j].isGroupChat
    /\ \E j \in RecordsOf(sdkReply.messages, request.args.chatId.s) :
          ~sdkReply.messages[j].isGroupChat
    /\ FieldAfter(response.text, "Type: ") = "Group Chat"
    /\ FieldAfter(response.text, "Total Messages: ") = "2"
    /\ locals.details.participants # << >>

(***************************************************************************)
(* Vocabulary of the shutdown properties.                                  *)
(***************************************************************************)
\* the positions of `event` in the log of the process
Occurrences(event) == { i \in 1..Len(events) : events[i] = event }

(***************************************************************************)
(* C14: after a shutdown signal, process termination is preceded by the    *)
(* release of the SDK handle and then by closing the server, in that       *)
(* order, including when the SDK release fails.                            *)
(***************************************************************************)
C14_ReleaseThenCloseThenExit ==
    \A k \in Occurrences("process.exit") :
        \E i \in Occurrences("sdk.close") : \E j \in Occurrences("server.close") :
            i < j /\ j < k

(***************************************************************************)
(* C15: across any interleaving of SIGINT and SIGTERM deliveries, the      *)
(* cleanup body runs at most once: the SDK handle's close and the server's *)
(* close are each invoked at most once.                                    *)
(***************************************************************************)
C15_CleanupRunsAtMostOnce ==
    /\ Cardinality(Occurrences("sdk.close")) <= 1
    /\ Cardinality(Occurrences("server.close")) <= 1

(***************************************************************************)
(* C18: once the construction of the PhotonClient has finished, whether    *)
(* the SDK constructor returned or threw, console.log and console.info are *)
(* the functions they were before the construction began.                  *)
(***************************************************************************)
C18_ConsoleRestored ==
    client # NoClient =>
        console = Console(client.originalConsoleLog, client.originalConsoleInfo)

(***************************************************************************)
(* Vocabulary of the concurrency properties.                               *)
(***************************************************************************)
\* the SDK calls an invocation makes when it runs alone
CallsAlone(req) ==
    LET st == CallToolRequestCall(req.name, req.args)
    IN  IF st.done THEN << >> ELSE <<st.call>>

\* the result an invocation produces when it runs alone and the SDK answers
\* `reply` to its call
ResultAlone(req, reply) ==
    LET st == CallToolRequestCall(req.name, req.args)
    IN  IF st.done THEN st.result
        ELSE CallToolRequestResume(req.name, req.args, reply)

(***************************************************************************)
(* C16: in any interleaving of tool invocations in flight at once on one   *)
(* server, each invocation yields exactly one result, equal to the result  *)
(* the same invocation produces alone against the same SDK answers to its  *)
(* own calls, and it makes the SDK calls it makes alone; an invocation     *)
(* that has not returned has no result.                                    *)
(***************************************************************************)
C16_InvocationsIndependent ==
    \A slot \in Slots :
        LET f == frames[slot]
        IN  /\ f.pc = "idle" => f = IdleFrame
            /\ f.pc = "await" =>
                  /\ f.response = NoResponse
                  /\ f.sdkCalls = CallsAlone(f.request)
            /\ f.pc = "done" =>
                  /\ f.response # NoResponse
                  /\ f.response = ResultAlone(f.request, f.sdkReply)
                  /\ f.sdkCalls = CallsAlone(f.request)

\* two invocations of the same tool with different arguments overlapped:
\* the one in slot 1 returned while another was suspended at its await,
\* the SDK answered them differently, and their results differ
C16_Witness ==
    /\ frames[1].pc = "done"
    /\ frames[2].pc = "done"
    /\ frames[1].overlapped
    /\ frames[1].request.name = "photon_get_conversation_details"
    /\ frames[2].request.name = "photon_get_conversation_details"
    /\ frames[1].request.args # frames[2].request.args
    /\ frames[1].sdkReply.shape = "array"
    /\ frames[2].sdkReply.shape = "wrapper"
    /\ frames[1].sdkReply.messages # << >>
    /\ frames[1].response # frames[2].response
    /\ ~frames[1].response.isError
    /\ ~frames[2].response.isError

====
